---- MODULE Spec2Model ----
(***************************************************************************)
(* Model of antilopay-node (src/index.ts): the AntilopayCustomer value     *)
(* object and the AntilopayService singleton with its request signing,     *)
(* header construction and the two asynchronous outbound calls.            *)
(***************************************************************************)
EXTENDS Integers, Sequences, FiniteSets, TLC

\* ------------------------------------------------------------------------
\* Bounds of the model
\* ------------------------------------------------------------------------
\* setApiVersion is called with arguments 1 .. MaxVersion
MaxVersion == 2
\* the heap has room for this many AntilopayService objects
MaxObjects == 2

\* ------------------------------------------------------------------------
\* JavaScript values: undefined, strings, numbers, booleans, plain objects.
\* A plain object is the ordered sequence of its <<key, value>> members.
\* ------------------------------------------------------------------------
Undefined == [t |-> "undef", s |-> "", n |-> 0, o |-> <<>>]
Str(s) == [t |-> "str", s |-> s, n |-> 0, o |-> <<>>]
Num(n) == [t |-> "num", s |-> "", n |-> n, o |-> <<>>]
Bool(b) == [t |-> "bool", s |-> "", n |-> IF b THEN 1 ELSE 0, o |-> <<>>]
Obj(members) == [t |-> "obj", s |-> "", n |-> 0, o |-> members]

\* JavaScript truthiness, as used by the `!x` tests
Falsy(v) ==
  \/ v.t = "undef"
  \/ v.t = "str" /\ v.s = ""
  \/ v.t = "num" /\ v.n = 0
  \/ v.t = "bool" /\ v.n = 0

Keys(members) == {members[i][1] : i \in 1..Len(members)}
HasKey(members, k) == k \in Keys(members)
Get(members, k) ==
  IF HasKey(members, k)
  THEN members[CHOOSE i \in 1..Len(members) : members[i][1] = k][2]
  ELSE Undefined

\* Number.prototype.toString for integers: decimal digits, "-" for negatives
Digit(d) == CASE d = 0 -> "0" [] d = 1 -> "1" [] d = 2 -> "2" [] d = 3 -> "3"
              [] d = 4 -> "4" [] d = 5 -> "5" [] d = 6 -> "6" [] d = 7 -> "7"
              [] d = 8 -> "8" [] d = 9 -> "9"

RECURSIVE NatToString(_)
NatToString(n) ==
  IF n < 10 THEN Digit(n) ELSE NatToString(n \div 10) \o Digit(n % 10)

NumberToString(n) == IF n < 0 THEN "-" \o NatToString(0 - n) ELSE NatToString(n)

\* JSON.stringify: members whose value is undefined are left out, no
\* whitespace, members in the object's own order
RECURSIVE JSONStringify(_)
RECURSIVE JSONMembers(_, _)
JSONMembers(members, first) ==
  IF members = <<>> THEN ""
  ELSE IF Head(members)[2].t = "undef" THEN JSONMembers(Tail(members), first)
  ELSE (IF first THEN "" ELSE ",")
         \o "\"" \o Head(members)[1] \o "\":" \o JSONStringify(Head(members)[2])
         \o JSONMembers(Tail(members), FALSE)

JSONStringify(v) ==
  CASE v.t = "str" -> "\"" \o v.s \o "\""
    [] v.t = "num" -> NumberToString(v.n)
    [] v.t = "bool" -> (IF v.n = 1 THEN "true" ELSE "false")
    [] v.t = "obj" -> "{" \o JSONMembers(v.o, TRUE) \o "}"
    [] v.t = "undef" -> "undefined"

\* ------------------------------------------------------------------------
\* AntilopayCustomer
\* ------------------------------------------------------------------------
NoCustomer == [email |-> Undefined, phone |-> Undefined, address |-> Undefined,
               ipAddress |-> Undefined, fullName |-> Undefined]

\* reject exactly when email is falsy (instead of when both are)
AntilopayCustomer_emailOnly(args) ==
  IF Falsy(args.email)
  THEN [threw |-> TRUE, obj |-> NoCustomer]
  ELSE [threw |-> FALSE,
        obj |-> [email |-> args.email, phone |-> args.phone,
                 address |-> args.address, ipAddress |-> args.ipAddress,
                 fullName |-> args.fullName]]

\* new AntilopayCustomer(args): throws, or the constructed object
AntilopayCustomer(args) ==
  IF Falsy(args.email) /\ Falsy(args.phone)
  THEN [threw |-> TRUE, obj |-> NoCustomer]
  ELSE [threw |-> FALSE,
        obj |-> [email |-> args.email, phone |-> args.phone,
                 address |-> args.address, ipAddress |-> args.ipAddress,
                 fullName |-> args.fullName]]

\* AntilopayCustomer.toJSON(): the object literal it returns
toJSON(this) ==
  << <<"email", this.email>>, <<"phone", this.phone>>,
     <<"address", this.address>>, <<"ip", this.ipAddress>>,
     <<"fullname", this.fullName>> >>

\* ------------------------------------------------------------------------
\* node:crypto, as far as the service uses it
\* ------------------------------------------------------------------------
\* PEM texts that parse as a private key; any other text makes sign() throw
PrivateKeys == {"PRIVATE-KEY-A"}

\* crypto.createSign(alg).update(data).sign(key, encoding) with a usable key:
\* a deterministic function of algorithm, key and signed bytes
Sign(alg, enc, key, data) == alg \o ":" \o enc \o ":" \o key \o ":" \o data

\* ------------------------------------------------------------------------
\* State
\* ------------------------------------------------------------------------
\* the contexts of the one process that use the service; each may have one
\* async call in flight
Callers == {"a", "b"}

VARIABLES
  instance,     \* AntilopayService.instance: 0 is null, else an index of objects
  objects,      \* the AntilopayService objects constructed so far
  ref,          \* per caller: the reference getInstance() returned to it (0: none)
  call,         \* per caller: its pending or finished async call
  lastBaseUrl,  \* history: argument of the latest setBaseUrl ("" if none)
  lastVersion,  \* history: argument of the latest setApiVersion (0 if none)
  custArgs,     \* argument of `new AntilopayCustomer(...)`
  custNew,      \* outcome of that construction
  custJson      \* result of toJSON() on the constructed customer

vars == <<instance, objects, ref, call, lastBaseUrl, lastVersion,
          custArgs, custNew, custJson>>
serviceVars == <<instance, objects, ref, call, lastBaseUrl, lastVersion>>
customerVars == <<custArgs, custNew, custJson>>

\* ------------------------------------------------------------------------
\* AntilopayService: fields and construction
\* ------------------------------------------------------------------------
DefaultBaseUrl == "https://api.antilopay.com/v1"
DefaultApiVersion == 1

\* field initialisers of the class, run by the private constructor
NewAntilopayService ==
  [baseUrl |-> DefaultBaseUrl,
   apiVersion |-> DefaultApiVersion,
   signingAlgorithm |-> "RSA-SHA256",
   signingAlgorithmOutput |-> "base64",
   projectId |-> "", secretId |-> "", secretKey |-> "", publicKey |-> ""]

\* arguments the callers pass
BaseUrls == {"https://example.test", "https://lk.antilopay.com/api/v1"}
Versions == 1..MaxVersion
Credentials ==
  { [projectId |-> "project-1", secretId |-> "secret-1",
     secretKey |-> "PRIVATE-KEY-A", publicKey |-> "PUBLIC-KEY-A"],
    [projectId |-> "project-2", secretId |-> "secret-2",
     secretKey |-> "not a pem", publicKey |-> "PUBLIC-KEY-B"] }

\* getters
getBaseUrl(this) == this.baseUrl
getApiVersion(this) == this.apiVersion
getProjectId(this) == this.projectId
getSecretId(this) == this.secretId
getSecretKey(this) == this.secretKey
getPublicKey(this) == this.publicKey

\* ------------------------------------------------------------------------
\* Signing and headers
\* ------------------------------------------------------------------------
\* hands back an empty signature where sign() would throw
generateSignature_noThrow(this, payload) ==
  IF this.secretKey \in PrivateKeys
  THEN [threw |-> FALSE,
        value |-> Sign(this.signingAlgorithm, this.signingAlgorithmOutput,
                       this.secretKey, JSONStringify(payload))]
  ELSE [threw |-> FALSE, value |-> ""]

\* generateSignature(payload): the signature text, or the exception of sign()
generateSignature(this, payload) ==
  LET data == JSONStringify(payload) IN
  IF this.secretKey \in PrivateKeys
  THEN [threw |-> FALSE,
        value |-> Sign(this.signingAlgorithm, this.signingAlgorithmOutput,
                       this.secretKey, data)]
  ELSE [threw |-> TRUE, value |-> ""]

HeaderNames == {"X-Apay-Secret-Id", "X-Apay-Sign-Version", "X-Apay-Sign"}
NoHeaders == [h \in {} |-> ""]

\* getApiHeaders(): the header object, or the exception of generateSignature
getApiHeaders(this) ==
  LET sig == generateSignature(this, Obj(<<>>)) IN
  IF sig.threw
  THEN [threw |-> TRUE, value |-> NoHeaders]
  ELSE [threw |-> FALSE,
        value |-> ("X-Apay-Secret-Id" :> this.projectId)
                  @@ ("X-Apay-Sign-Version" :> NumberToString(this.apiVersion))
                  @@ ("X-Apay-Sign" :> sig.value)]

\* ------------------------------------------------------------------------
\* Async calls: what a caller's pending call holds
\* ------------------------------------------------------------------------
NoRequest == [url |-> "", headers |-> NoHeaders, body |-> ""]

\* pc: "idle", "awaiting" (suspended on axios.post), "returned", "threw"
\* req: the request handed to axios.post; cfg: the service object's fields
\* at that moment; response: what axios resolved with; result: the value the
\* call returned; error: the exception it threw
IdleCall ==
  [pc |-> "idle", kind |-> "", req |-> NoRequest, cfg |-> NewAntilopayService,
   response |-> Undefined, result |-> Undefined, error |-> ""]

\* payloads the callers pass
TestCustomer ==
  AntilopayCustomer([email |-> Str("a@b.com"), phone |-> Undefined,
                     address |-> Str("Moscow"), ipAddress |-> Str("127.0.0.1"),
                     fullName |-> Str("Customer Name")]).obj

PaymentIntentOf(orderId) ==
  Obj(<< <<"amount", Num(10)>>, <<"order_id", Str(orderId)>>,
         <<"currency", Str("RUB")>>,
         <<"customer", Obj(toJSON(TestCustomer))>> >>)

PaymentIntents == {PaymentIntentOf("TEST1"), PaymentIntentOf("TEST2")}
CheckPayloads == {Obj(<<>>)}

\* bodies the processor may answer with (HTTP status 2xx)
PlainReply ==
  Obj(<< <<"code", Num(0)>>, <<"payment_id", Str("APAY1")>>,
         <<"payment_url", Str("https://pay.test/1")>>,
         <<"direct_nspk", Bool(FALSE)>> >>)
NspkReply ==
  Obj(<< <<"code", Num(0)>>, <<"payment_id", Str("APAY1")>>,
         <<"direct_nspk", Bool(TRUE)>>,
         <<"payment_url", Str("https://qr.test/1")>>,
         <<"transaction_id", Str("APAY1T")>> >>)
NspkReplyNoTransaction ==
  Obj(<< <<"code", Num(0)>>, <<"payment_id", Str("APAY1")>>,
         <<"direct_nspk", Bool(TRUE)>>,
         <<"payment_url", Str("https://qr.test/1")>> >>)
NspkReplyEmptyTransaction ==
  Obj(<< <<"code", Num(0)>>, <<"payment_id", Str("APAY1")>>,
         <<"direct_nspk", Bool(TRUE)>>,
         <<"payment_url", Str("https://qr.test/1")>>,
         <<"transaction_id", Str("")>> >>)
DuplicateOrderReply ==
  Obj(<< <<"code", Num(5)>>, <<"error", Str("Order already exists")>> >>)
PaymentReplies ==
  {PlainReply, NspkReply, NspkReplyNoTransaction, NspkReplyEmptyTransaction,
   DuplicateOrderReply}

SignOkReply == Obj(<< <<"status", Str("ok")>> >>)
InvalidSignReply ==
  Obj(<< <<"code", Num(3)>>, <<"error", Str("Invalid sign")>> >>)
CheckReplies == {SignOkReply, InvalidSignReply}

\* ------------------------------------------------------------------------
\* Operations of AntilopayService
\* ------------------------------------------------------------------------
This(c) == objects[ref[c]]
\* c holds a reference to a service object; its synchronous methods can be
\* called through it at any time, also while a call of c is suspended
Running(c) == ref[c] # 0

\* constructs a fresh object on every call
getInstance_alwaysNew(c) ==
  /\ Len(objects) < MaxObjects
  /\ objects' = Append(objects, NewAntilopayService)
  /\ instance' = Len(objects) + 1
  /\ ref' = [ref EXCEPT ![c] = Len(objects) + 1]
  /\ UNCHANGED <<call, lastBaseUrl, lastVersion, customerVars>>

\* static getInstance(), called by c, which keeps the reference
getInstance(c) ==
  /\ IF instance = 0
     THEN /\ Len(objects) < MaxObjects
          /\ objects' = Append(objects, NewAntilopayService)
          /\ instance' = Len(objects) + 1
          /\ ref' = [ref EXCEPT ![c] = Len(objects) + 1]
     ELSE /\ ref' = [ref EXCEPT ![c] = instance]
          /\ UNCHANGED <<instance, objects>>
  /\ UNCHANGED <<call, lastBaseUrl, lastVersion, customerVars>>

\* also puts the runtime configuration back to its defaults
init_resetsConfig(c, creds) ==
  /\ Running(c)
  /\ objects' = [objects EXCEPT ![ref[c]] =
       [NewAntilopayService EXCEPT !.projectId = creds.projectId,
                                   !.secretId = creds.secretId,
                                   !.secretKey = creds.secretKey,
                                   !.publicKey = creds.publicKey]]
  /\ UNCHANGED <<instance, ref, call, lastBaseUrl, lastVersion, customerVars>>

\* init({projectId, secretId, secretKey, publicKey})
init(c, creds) ==
  /\ Running(c)
  /\ objects' = [objects EXCEPT ![ref[c]] =
       [@ EXCEPT !.projectId = creds.projectId,
                 !.secretId = creds.secretId,
                 !.secretKey = creds.secretKey,
                 !.publicKey = creds.publicKey]]
  /\ UNCHANGED <<instance, ref, call, lastBaseUrl, lastVersion, customerVars>>

\* setBaseUrl(url)
setBaseUrl(c, url) ==
  /\ Running(c)
  /\ objects' = [objects EXCEPT ![ref[c]].baseUrl = url]
  /\ lastBaseUrl' = url
  /\ UNCHANGED <<instance, ref, call, lastVersion, customerVars>>

\* the headers of requests in flight follow the version (a header object
\* that reads the configuration when the request is written out)
setApiVersion_live(c, version) ==
  /\ Running(c)
  /\ objects' = [objects EXCEPT ![ref[c]].apiVersion = version]
  /\ lastVersion' = version
  /\ call' = [d \in Callers |->
       IF call[d].pc = "awaiting"
       THEN [call[d] EXCEPT !.req.headers =
              [h \in DOMAIN call[d].req.headers |->
                 IF h = "X-Apay-Sign-Version" THEN NumberToString(version)
                 ELSE call[d].req.headers[h]]]
       ELSE call[d]]
  /\ UNCHANGED <<instance, ref, lastBaseUrl, customerVars>>

\* setApiVersion(version)
setApiVersion(c, version) ==
  /\ Running(c)
  /\ objects' = [objects EXCEPT ![ref[c]].apiVersion = version]
  /\ lastVersion' = version
  /\ UNCHANGED <<instance, ref, call, lastBaseUrl, customerVars>>

\* the part of an async call up to its await: the arguments of axios.post
\* are evaluated left to right, then the request is handed to axios
Issue(c, kind, path, body) ==
  LET this == This(c)
      url == this.baseUrl \o path
      headers == getApiHeaders(this)
  IN /\ Running(c)
     /\ call[c].pc = "idle"
     /\ call' = [call EXCEPT ![c] =
          IF headers.threw
          THEN [IdleCall EXCEPT !.pc = "threw", !.kind = kind,
                                !.error = "ERR_OSSL", !.cfg = this]
          ELSE [IdleCall EXCEPT !.pc = "awaiting", !.kind = kind,
                                !.req = [url |-> url, headers |-> headers.value,
                                         body |-> body],
                                !.cfg = this]]
     /\ UNCHANGED <<instance, objects, ref, lastBaseUrl, lastVersion,
                    customerVars>>

\* verifySignature(payload), up to the await
verifySignature(c, payload) ==
  LET data == JSONStringify(payload)
  IN Issue(c, "verifySignature", "/signature/check", data)

\* createPaymentIntent(paymentIntent), up to the await; axios serialises the
\* object it is given as the JSON body
createPaymentIntent(c, paymentIntent) ==
  Issue(c, "createPaymentIntent", "/payment/create",
        JSONStringify(paymentIntent))

\* raises ApiError for a reply with a nonzero code
createPaymentIntentResume_apiError(c, response) ==
  /\ call[c].pc = "awaiting"
  /\ call[c].kind = "createPaymentIntent"
  /\ call' = [call EXCEPT ![c] =
       IF Get(response.o, "code").n # 0
       THEN [@ EXCEPT !.pc = "threw", !.response = response,
                      !.error = "ApiError"]
       ELSE [@ EXCEPT !.pc = "returned", !.response = response,
                      !.result = response]]
  /\ UNCHANGED <<instance, objects, ref, lastBaseUrl, lastVersion,
                 customerVars>>

\* createPaymentIntent after the await: return response.data
createPaymentIntentResume(c, response) ==
  /\ call[c].pc = "awaiting"
  /\ call[c].kind = "createPaymentIntent"
  /\ call' = [call EXCEPT ![c] =
       [@ EXCEPT !.pc = "returned", !.response = response,
                 !.result = response]]
  /\ UNCHANGED <<instance, objects, ref, lastBaseUrl, lastVersion,
                 customerVars>>

\* verifySignature after the await: return response.data
verifySignatureResume(c, response) ==
  /\ call[c].pc = "awaiting"
  /\ call[c].kind = "verifySignature"
  /\ call' = [call EXCEPT ![c] =
       [@ EXCEPT !.pc = "returned", !.response = response,
                 !.result = response]]
  /\ UNCHANGED <<instance, objects, ref, lastBaseUrl, lastVersion,
                 customerVars>>

\* axios.post rejects (network fault, timeout, status outside 2xx): the
\* await throws and the async function rejects with that error
AxiosReject(c) ==
  /\ call[c].pc = "awaiting"
  /\ call' = [call EXCEPT ![c] = [@ EXCEPT !.pc = "threw",
                                           !.error = "AxiosError"]]
  /\ UNCHANGED <<instance, objects, ref, lastBaseUrl, lastVersion,
                 customerVars>>

\* the caller has taken the outcome of its call and may call again
Settle(c) ==
  /\ call[c].pc \in {"returned", "threw"}
  /\ call' = [call EXCEPT ![c] = IdleCall]
  /\ UNCHANGED <<instance, objects, ref, lastBaseUrl, lastVersion,
                 customerVars>>

\* ------------------------------------------------------------------------
\* Construction and serialisation of a customer
\* ------------------------------------------------------------------------
NotConstructed == [done |-> FALSE, threw |-> FALSE, obj |-> NoCustomer]

CustomerArgs ==
  [email : {Undefined, Str(""), Str("a@b.test")},
   phone : {Undefined, Str(""), Str("+79000000000")},
   address : {Undefined, Str(""), Str("addr")},
   ipAddress : {Str("1.2.3.4")},
   fullName : {Str(""), Str("Jane")}]

Construct ==
  /\ ~custNew.done
  /\ custNew' = [done |-> TRUE, threw |-> AntilopayCustomer(custArgs).threw,
                 obj |-> AntilopayCustomer(custArgs).obj]
  /\ UNCHANGED <<custArgs, custJson, serviceVars>>

Serialise ==
  /\ custNew.done /\ ~custNew.threw
  /\ custJson = <<>>
  /\ custJson' = toJSON(custNew.obj)
  /\ UNCHANGED <<custArgs, custNew, serviceVars>>

\* ------------------------------------------------------------------------
\* Specifications
\* ------------------------------------------------------------------------
InitService ==
  /\ instance = 0
  /\ objects = <<>>
  /\ ref = [c \in Callers |-> 0]
  /\ call = [c \in Callers |-> IdleCall]
  /\ lastBaseUrl = ""
  /\ lastVersion = 0

Init ==
  /\ InitService
  /\ custArgs = NoCustomer
  /\ custNew = NotConstructed
  /\ custJson = <<>>

Next ==
  \E c \in Callers :
    \/ getInstance(c)
    \/ \E creds \in Credentials : init(c, creds)
    \/ \E url \in BaseUrls : setBaseUrl(c, url)
    \/ \E version \in Versions : setApiVersion(c, version)
    \/ \E payload \in CheckPayloads : verifySignature(c, payload)
    \/ \E paymentIntent \in PaymentIntents : createPaymentIntent(c, paymentIntent)
    \/ \E data \in PaymentReplies : createPaymentIntentResume(c, data)
    \/ \E data \in CheckReplies : verifySignatureResume(c, data)
    \/ AxiosReject(c)
    \/ Settle(c)

Spec == Init /\ [][Next]_vars

InitCustomer ==
  /\ InitService
  /\ custArgs \in CustomerArgs
  /\ custNew = NotConstructed
  /\ custJson = <<>>

NextCustomer == Construct \/ Serialise

SpecCustomer == InitCustomer /\ [][NextCustomer]_vars

\* ------------------------------------------------------------------------
\* Properties
\* ------------------------------------------------------------------------
\* the call of c handed a request to axios.post
Issued(c) == call[c].req # NoRequest
PathOf(kind) ==
  IF kind = "createPaymentIntent" THEN "/payment/create" ELSE "/signature/check"
SignatureOver(cfg, data) ==
  Sign(cfg.signingAlgorithm, cfg.signingAlgorithmOutput, cfg.secretKey, data)

\* C1: the X-Apay-Sign header of every request is the signature of the body
\* sent in that same request.
C1_SignatureCoversBody ==
  \A c \in Callers :
    Issued(c) =>
      call[c].req.headers["X-Apay-Sign"] = SignatureOver(call[c].cfg, call[c].req.body)

\* C2: a call made while the private key is absent or malformed throws and
\* hands no request to the network; every request handed over carries a
\* signature that a successful signing step with a usable key produced.
C2_NoRequestWithoutSignature ==
  \A c \in Callers :
    /\ (call[c].pc # "idle" /\ call[c].cfg.secretKey \notin PrivateKeys) =>
         (call[c].pc = "threw" /\ call[c].error = "ERR_OSSL" /\ ~Issued(c))
    /\ Issued(c) =>
         /\ call[c].cfg.secretKey \in PrivateKeys
         /\ call[c].req.headers["X-Apay-Sign"] \in
              {SignatureOver(call[c].cfg, data) : data \in {"{}", call[c].req.body}}

C2_Witness ==
  \E c, d \in Callers :
    /\ call[c].pc = "threw" /\ call[c].error = "ERR_OSSL"
    /\ call[c].cfg.secretKey = "not a pem"
    /\ call[c].kind = "createPaymentIntent"
    /\ call[d].pc = "awaiting"

C4_NspkCarriesTransaction ==
  \A c \in Callers :
    (call[c].kind = "createPaymentIntent" /\ call[c].pc = "returned") =>
      (~Falsy(Get(call[c].result.o, "transaction_id"))
         <=> Get(call[c].result.o, "direct_nspk") = Bool(TRUE))

\* C5: construction throws, creating no object, exactly when email and phone
\* are both empty or absent; the toJSON() form of a constructed customer has
\* the five keys email, phone, address, ip, fullname with the values given.
C5_CustomerConstruction ==
  /\ custNew.done =>
       /\ custNew.threw <=>
            (custArgs.email \in {Undefined, Str("")} /\ custArgs.phone \in {Undefined, Str("")})
       /\ custNew.threw => custNew.obj = NoCustomer
  /\ custJson # <<>> =>
       /\ Len(custJson) = 5
       /\ Keys(custJson) = {"email", "phone", "address", "ip", "fullname"}
       /\ Get(custJson, "email") = custArgs.email
       /\ Get(custJson, "phone") = custArgs.phone
       /\ Get(custJson, "address") = custArgs.address
       /\ Get(custJson, "ip") = custArgs.ipAddress
       /\ Get(custJson, "fullname") = custArgs.fullName

C5_Witness ==
  /\ custJson # <<>>
  /\ custArgs.email = Str("")
  /\ custArgs.phone = Str("+79000000000")

\* C6: at most one service object is ever constructed and every reference
\* getInstance() returned is that object, so a base URL set through one
\* reference is read through every other and is the base of the URL of every
\* request issued afterwards.
C6_SingleInstance ==
  /\ Len(objects) <= 1
  /\ \A c \in Callers : ref[c] # 0 => ref[c] = instance
  /\ \A c, d \in Callers :
       (ref[c] # 0 /\ ref[d] # 0 /\ lastBaseUrl # "") =>
         /\ getBaseUrl(This(c)) = lastBaseUrl
         /\ getBaseUrl(This(d)) = lastBaseUrl

C6_IssuedUnderSharedUrl ==
  \A c, d \in Callers :
    (call[c].pc = "idle" /\ call'[c].pc = "awaiting" /\ ref[d] # 0) =>
      call'[c].req.url = getBaseUrl(This(d)) \o PathOf(call'[c].kind)

C6_Singleton == [](C6_SingleInstance) /\ [][C6_IssuedUnderSharedUrl]_vars

C6_Witness ==
  \E c, d \in Callers :
    /\ c # d /\ ref[c] # 0 /\ ref[d] # 0
    /\ lastBaseUrl = "https://example.test"
    /\ call[c].pc = "awaiting"
    /\ call[c].req.url = "https://example.test/payment/create"
    /\ call[d].pc = "idle"

\* C7: every request carries exactly the headers X-Apay-Secret-Id,
\* X-Apay-Sign-Version and X-Apay-Sign, the first being the secretId of the
\* latest init and the second the decimal text of the version in force.
C7_AuthHeaders ==
  \A c \in Callers :
    Issued(c) =>
      /\ DOMAIN call[c].req.headers = HeaderNames
      /\ call[c].req.headers["X-Apay-Secret-Id"] = call[c].cfg.secretId
      /\ call[c].req.headers["X-Apay-Sign-Version"] = NumberToString(call[c].cfg.apiVersion)

C9_VerifyNeverThrows ==
  \A c \in Callers :
    call[c].kind = "verifySignature" => call[c].pc # "threw"

\* C10: the URL and the headers of a request in flight are those computed
\* from the configuration as it was when the call was issued, whatever
\* reconfiguration or other call has happened since, and a call returns the
\* reply to its own request.
C10_IssuedFromOneSnapshot ==
  \A c \in Callers :
    /\ Issued(c) =>
         /\ call[c].req.url = call[c].cfg.baseUrl \o PathOf(call[c].kind)
         /\ call[c].req.headers = getApiHeaders(call[c].cfg).value
    /\ call[c].pc = "returned" => call[c].result = call[c].response

C10_Witness ==
  \E c, d \in Callers :
    /\ c # d
    /\ call[c].pc = "awaiting" /\ call[d].pc = "awaiting"
    /\ call[c].cfg.baseUrl # call[d].cfg.baseUrl
    /\ call[c].cfg.apiVersion # call[d].cfg.apiVersion
    /\ This(c).apiVersion # call[d].cfg.apiVersion
    /\ This(c).secretKey # call[c].cfg.secretKey

====
